---- MODULE Spec2Model ----
(***************************************************************************)
(* Client-side session state machine of the staff-points front end:        *)
(* the Redux auth slice (features/auth/authSlice.ts), the shared axios     *)
(* client (utils/axios.ts), the browser's localStorage and the route guard *)
(* (components/PrivateRoute.tsx), followed by the login form               *)
(* (pages/auth/Login.tsx) and the three dashboards, which call axios       *)
(* directly (pages/Dashboards/*.tsx, pages/Home.tsx).                      *)
(*                                                                         *)
(* Encoding of JavaScript values:                                          *)
(*   - a string is a sequence of lexemes, '' is <<>>, and a template       *)
(*     literal is a concatenation (\o);                                    *)
(*   - null and undefined are the records null and undefined;              *)
(*   - a nullable string is null, undefined or Str(s);                     *)
(*   - an object with optional keys (localStorage, a header bag) is a      *)
(*     function whose DOMAIN is the set of keys present.                   *)
(*                                                                         *)
(* The browser runs one macrotask at a time: the continuation of a thunk   *)
(* after its HTTP response and the reducer call that follows are promise   *)
(* microtasks of the same macrotask, so one response is one atomic step.   *)
(***************************************************************************)
EXTENDS Integers, Sequences, FiniteSets, TLC

VARIABLES app, auth, ls, defaults, inflight, view, form, dash, last

vars == <<app, auth, ls, defaults, inflight, view, form, dash, last>>

\* Largest number of session requests awaiting their response at once.
MaxInFlight == 2

\* Largest number of requests of a dashboard awaiting their response at once.
MaxFetches == 4

(***************************************************************************)
(* JavaScript values                                                       *)
(***************************************************************************)
null == [t |-> "null"]

undefined == [t |-> "undefined"]

Str(s) == [t |-> "string", s |-> s]

\* JavaScript truthiness of a nullable string: null, undefined and '' are falsy.
Truthy(x) == x.t = "string" /\ x.s # <<>>

\* x || d, for a nullable string x and a string d.
OrElse(x, d) == IF Truthy(x) THEN x.s ELSE d

Roles == {"ADMIN", "EMPLOYEE"}

\* User records the server can return (name, email and staffPoints travel
\* with id and are not read by any operation of the session core).
Users == {[id |-> 1, role |-> "ADMIN"], [id |-> 2, role |-> "EMPLOYEE"]}

Tokens == {<<"t1">>, <<"t2">>}

ServerMessage == <<"Account is locked">>

\* err.response?.data?.error of a failed call: missing, empty, or a message.
ServerErrors == {undefined, Str(<<>>), Str(ServerMessage)}

(***************************************************************************)
(* JSON.stringify / JSON.parse on the values the program serializes        *)
(***************************************************************************)
Digits == <<"0", "1", "2", "3", "4", "5", "6", "7", "8", "9">>

NumberText(n) == Digits[n + 1]

Quote(s) == "\"" \o s \o "\""

JSONstringify(v) ==
  IF v = null THEN <<"null">>
  ELSE IF v = undefined THEN <<"undefined">>   \* setItem stores String(undefined)
  ELSE <<"{", "\"id\":", NumberText(v.id), ",", "\"role\":", Quote(v.role), "}">>

IsNumberText(x) == \E n \in 0..9 : Digits[n + 1] = x

NumberOf(x) == CHOOSE n \in 0..9 : Digits[n + 1] = x

IsQuoted(x) == \E r \in Roles : Quote(r) = x

Unquote(x) == CHOOSE r \in Roles : Quote(r) = x

\* [ok |-> TRUE, value |-> v], or [ok |-> FALSE] where JSON.parse throws SyntaxError.
JSONparse(text) ==
  IF text = <<"null">> THEN [ok |-> TRUE, value |-> null]
  ELSE IF /\ Len(text) = 7
          /\ text[1] = "{" /\ text[2] = "\"id\":" /\ IsNumberText(text[3])
          /\ text[4] = "," /\ text[5] = "\"role\":" /\ IsQuoted(text[6])
          /\ text[7] = "}"
       THEN [ok |-> TRUE, value |-> [id |-> NumberOf(text[3]), role |-> Unquote(text[6])]]
       ELSE [ok |-> FALSE]

(***************************************************************************)
(* localStorage and header bags                                            *)
(***************************************************************************)
EmptyBag == [k \in {} |-> <<>>]

getItem(store, key) == IF key \in DOMAIN store THEN Str(store[key]) ELSE null

setItem(store, key, value) ==
  [k \in DOMAIN store \cup {key} |-> IF k = key THEN value ELSE store[k]]

removeItem(store, key) == [k \in DOMAIN store \ {key} |-> store[k]]

saveAuthToLocalStorage(store, user, token) ==
  setItem(setItem(store, "user", JSONstringify(user)), "token", token)

clearAuthFromLocalStorage(store) == removeItem(removeItem(store, "user"), "token")

(***************************************************************************)
(* utils/axios.ts: the shared client                                       *)
(***************************************************************************)
Bearer(token) == <<"Bearer ">> \o token

\* The request interceptor, applied to the config axios built from
\* api.defaults.headers.common: the headers the request goes out with.
requestInterceptor(store, headers) ==
  LET token == getItem(store, "token")
  IN  IF Truthy(token) THEN setItem(headers, "Authorization", Bearer(token.s))
      ELSE headers

(***************************************************************************)
(* features/auth/authSlice.ts                                              *)
(***************************************************************************)
Ops == {"register", "login", "getMe", "logout"}

\* JSON.parse(storedUser) throws while the module is evaluated: no store exists.
initialStateThrows(store) ==
  LET storedUser == getItem(store, "user")
  IN  Truthy(storedUser) /\ ~JSONparse(storedUser.s).ok

\* Mutant: the stored text is kept as the user, without JSON.parse.
initialState_unparsed(store) ==
  LET storedUser  == getItem(store, "user")
      storedToken == getItem(store, "token")
  IN  [user            |-> IF Truthy(storedUser) THEN storedUser ELSE null,
       token           |-> IF Truthy(storedToken) THEN storedToken ELSE null,
       isAuthenticated |-> Truthy(storedToken),
       error           |-> null,
       loading         |-> FALSE]

initialState(store) ==
  LET storedUser  == getItem(store, "user")
      storedToken == getItem(store, "token")
  IN  [user            |-> IF Truthy(storedUser) THEN JSONparse(storedUser.s).value ELSE null,
       token           |-> IF Truthy(storedToken) THEN storedToken ELSE null,
       isAuthenticated |-> Truthy(storedToken),
       error           |-> null,
       loading         |-> FALSE]

\* The state held where the slice module failed to load (nothing is rendered).
NoStore ==
  [user |-> null, token |-> null, isAuthenticated |-> FALSE, error |-> null,
   loading |-> FALSE]

\* Server answers.  ok: the call resolved with res.data = data; otherwise
\* it threw with err.response?.data?.error = error.
AuthResponses == {[user |-> u, accessToken |-> t] : u \in Users, t \in Tokens}

Failures == {[ok |-> FALSE, error |-> e] : e \in ServerErrors}

Responses(op) ==
  Failures \cup
    CASE op \in {"register", "login"} -> {[ok |-> TRUE, data |-> d] : d \in AuthResponses}
      [] op = "getMe"                 -> {[ok |-> TRUE, data |-> u] : u \in Users}
      [] op = "logout"                -> {[ok |-> TRUE, data |-> null]}

Fulfilled(payload) == [type |-> "fulfilled", payload |-> payload]

Rejected(payload) == [type |-> "rejected", payload |-> payload]

\* Each thunk, from its awaited response on: the storage and the default
\* headers it leaves, and the action createAsyncThunk dispatches for it.
registerUserThunk(store, common, res) ==
  IF res.ok
  THEN [store  |-> saveAuthToLocalStorage(store, res.data.user, res.data.accessToken),
        common |-> setItem(common, "Authorization", Bearer(res.data.accessToken)),
        action |-> Fulfilled(res.data)]
  ELSE [store  |-> store,
        common |-> common,
        action |-> Rejected(Str(OrElse(res.error, <<"Registration failed">>)))]

\* Mutant: the catch falls back to the reducer's default text.
loginUserThunk_otherDefault(store, common, res) ==
  IF res.ok
  THEN [store  |-> saveAuthToLocalStorage(store, res.data.user, res.data.accessToken),
        common |-> setItem(common, "Authorization", Bearer(res.data.accessToken)),
        action |-> Fulfilled(res.data)]
  ELSE [store  |-> store,
        common |-> common,
        action |-> Rejected(Str(OrElse(res.error, <<"Login failed">>)))]

loginUserThunk(store, common, res) ==
  IF res.ok
  THEN [store  |-> saveAuthToLocalStorage(store, res.data.user, res.data.accessToken),
        common |-> setItem(common, "Authorization", Bearer(res.data.accessToken)),
        action |-> Fulfilled(res.data)]
  ELSE [store  |-> store,
        common |-> common,
        action |-> Rejected(Str(OrElse(res.error, <<"Invalid credentials">>)))]

\* Mutant: on success only the 'user' key is written.
getMeThunk_userOnly(store, common, res) ==
  IF res.ok
  THEN [store  |-> setItem(store, "user", JSONstringify(res.data)),
        common |-> common,
        action |-> Fulfilled(res.data)]
  ELSE [store  |-> clearAuthFromLocalStorage(store),
        common |-> common,
        action |-> Rejected(Str(OrElse(res.error, <<"Failed to fetch user">>)))]

\* Mutant: the catch leaves localStorage alone, as logout's does.
getMeThunk_keepsStorage(store, common, res) ==
  IF res.ok
  THEN [store  |-> saveAuthToLocalStorage(store, res.data,
                                          OrElse(getItem(store, "token"), <<>>)),
        common |-> common,
        action |-> Fulfilled(res.data)]
  ELSE [store  |-> store,
        common |-> common,
        action |-> Rejected(Str(OrElse(res.error, <<"Failed to fetch user">>)))]

getMeThunk(store, common, res) ==
  IF res.ok
  THEN [store  |-> saveAuthToLocalStorage(store, res.data,
                                          OrElse(getItem(store, "token"), <<>>)),
        common |-> common,
        action |-> Fulfilled(res.data)]
  ELSE [store  |-> clearAuthFromLocalStorage(store),
        common |-> common,
        action |-> Rejected(Str(OrElse(res.error, <<"Failed to fetch user">>)))]

\* Mutant: the catch swallows the error instead of returning rejectWithValue.
logoutUserThunk_swallows(store, common, res) ==
  IF res.ok
  THEN [store  |-> clearAuthFromLocalStorage(store),
        common |-> removeItem(common, "Authorization"),
        action |-> Fulfilled(undefined)]
  ELSE [store  |-> store,
        common |-> common,
        action |-> Fulfilled(undefined)]

logoutUserThunk(store, common, res) ==
  IF res.ok
  THEN [store  |-> clearAuthFromLocalStorage(store),
        common |-> removeItem(common, "Authorization"),
        action |-> Fulfilled(undefined)]
  ELSE [store  |-> store,
        common |-> common,
        action |-> Rejected(Str(OrElse(res.error, <<"Logout failed">>)))]

thunk(op, store, common, res) ==
  CASE op = "register" -> registerUserThunk(store, common, res)
    [] op = "login"    -> loginUserThunk(store, common, res)
    [] op = "getMe"    -> getMeThunk(store, common, res)
    [] op = "logout"   -> logoutUserThunk(store, common, res)

\* extraReducers, one operator per addCase.
registerUserPending(state) == [state EXCEPT !.loading = TRUE, !.error = null]

registerUserFulfilled(state, action) ==
  [state EXCEPT !.user = action.payload.user,
                !.token = Str(action.payload.accessToken),
                !.isAuthenticated = TRUE,
                !.error = null,
                !.loading = FALSE]

\* Mutant: the rejected case clears the session, as login's does.
registerUserRejected_clears(state, action) ==
  [state EXCEPT !.user = null,
                !.token = null,
                !.isAuthenticated = FALSE,
                !.error = Str(OrElse(action.payload, <<"Registration failed">>)),
                !.loading = FALSE]

registerUserRejected(state, action) ==
  [state EXCEPT !.error = Str(OrElse(action.payload, <<"Registration failed">>)),
                !.loading = FALSE]

loginUserPending(state) == [state EXCEPT !.loading = TRUE, !.error = null]

\* Mutant: the fulfilled case forgets state.token, as getMe's does.
loginUserFulfilled_noToken(state, action) ==
  [state EXCEPT !.user = action.payload.user,
                !.isAuthenticated = TRUE,
                !.error = null,
                !.loading = FALSE]

loginUserFulfilled(state, action) ==
  [state EXCEPT !.user = action.payload.user,
                !.token = Str(action.payload.accessToken),
                !.isAuthenticated = TRUE,
                !.error = null,
                !.loading = FALSE]

\* Mutant: the rejected case forgets to null state.token.
loginUserRejected_keepsToken(state, action) ==
  [state EXCEPT !.user = null,
                !.isAuthenticated = FALSE,
                !.error = Str(OrElse(action.payload, <<"Login failed">>)),
                !.loading = FALSE]

loginUserRejected(state, action) ==
  [state EXCEPT !.user = null,
                !.token = null,
                !.isAuthenticated = FALSE,
                !.error = Str(OrElse(action.payload, <<"Login failed">>)),
                !.loading = FALSE]

getMePending(state) == [state EXCEPT !.loading = TRUE, !.error = null]

getMeFulfilled(state, action) ==
  [state EXCEPT !.user = action.payload,
                !.isAuthenticated = TRUE,
                !.error = null,
                !.loading = FALSE]

\* Mutant: the rejected case forgets to null state.token.
getMeRejected_keepsToken(state, action) ==
  [state EXCEPT !.user = null,
                !.isAuthenticated = FALSE,
                !.error = Str(OrElse(action.payload, <<"Failed to fetch user">>)),
                !.loading = FALSE]

getMeRejected(state, action) ==
  [state EXCEPT !.user = null,
                !.token = null,
                !.isAuthenticated = FALSE,
                !.error = Str(OrElse(action.payload, <<"Failed to fetch user">>)),
                !.loading = FALSE]

logoutUserPending(state) == [state EXCEPT !.loading = TRUE]

\* Mutant: the fulfilled case forgets to reset state.error.
logoutUserFulfilled_keepsError(state) ==
  [state EXCEPT !.user = null,
                !.token = null,
                !.isAuthenticated = FALSE,
                !.loading = FALSE]

logoutUserFulfilled(state) ==
  [state EXCEPT !.user = null,
                !.token = null,
                !.isAuthenticated = FALSE,
                !.error = null,
                !.loading = FALSE]

\* Mutant: the rejected case tears the session down as the fulfilled one does.
logoutUserRejected_clears(state, action) ==
  [state EXCEPT !.user = null,
                !.token = null,
                !.isAuthenticated = FALSE,
                !.error = Str(OrElse(action.payload, <<"Logout failed">>)),
                !.loading = FALSE]

logoutUserRejected(state, action) ==
  [state EXCEPT !.error = Str(OrElse(action.payload, <<"Logout failed">>)),
                !.loading = FALSE]

\* Mutant: clearError also drops the user.
clearError_dropsUser(state) == [state EXCEPT !.error = null, !.user = null]

clearError(state) == [state EXCEPT !.error = null]

pendingReducer(state, op) ==
  CASE op = "register" -> registerUserPending(state)
    [] op = "login"    -> loginUserPending(state)
    [] op = "getMe"    -> getMePending(state)
    [] op = "logout"   -> logoutUserPending(state)

settledReducer(state, op, action) ==
  CASE op = "register" /\ action.type = "fulfilled" -> registerUserFulfilled(state, action)
    [] op = "register" /\ action.type = "rejected"  -> registerUserRejected(state, action)
    [] op = "login"    /\ action.type = "fulfilled" -> loginUserFulfilled(state, action)
    [] op = "login"    /\ action.type = "rejected"  -> loginUserRejected(state, action)
    [] op = "getMe"    /\ action.type = "fulfilled" -> getMeFulfilled(state, action)
    [] op = "getMe"    /\ action.type = "rejected"  -> getMeRejected(state, action)
    [] op = "logout"   /\ action.type = "fulfilled" -> logoutUserFulfilled(state)
    [] op = "logout"   /\ action.type = "rejected"  -> logoutUserRejected(state, action)

(***************************************************************************)
(* components/PrivateRoute.tsx                                             *)
(***************************************************************************)
\* Mutant: the guard first asks the session store whether anyone is logged in.
PrivateRoute_consultsStore(store, requiredRole) ==
  LET userStr == getItem(store, "user")
  IN  IF ~auth.isAuthenticated THEN "/login"
      ELSE IF ~Truthy(userStr) THEN "/login"
      ELSE IF ~JSONparse(userStr.s).ok THEN "/login"
      ELSE LET users == JSONparse(userStr.s).value
               role  == IF users = null THEN undefined ELSE Str(<<users.role>>)
           IN  IF role # Str(<<requiredRole>>) THEN "/unauthorized"
               ELSE "children"

\* Mutant: the guard admits any stored user, whatever the role.
PrivateRoute_noRoleCheck(store, requiredRole) ==
  LET userStr == getItem(store, "user")
  IN  IF ~Truthy(userStr) THEN "/login"
      ELSE IF ~JSONparse(userStr.s).ok THEN "/login"
      ELSE "children"

PrivateRoute(store, requiredRole) ==
  LET userStr == getItem(store, "user")
  IN  IF ~Truthy(userStr) THEN "/login"
      ELSE IF ~JSONparse(userStr.s).ok THEN "/login"
      ELSE LET users == JSONparse(userStr.s).value
               role  == IF users = null THEN undefined ELSE Str(<<users.role>>)
           IN  IF role # Str(<<requiredRole>>) THEN "/unauthorized"
               ELSE "children"

\* App.tsx: what the router renders at a path.  The two dashboards sit behind
\* the guard, the other declared paths are public, any other path is the
\* fallback page.
ProtectedRoutes == {"/dashboard/admin", "/dashboard/employee"}

PublicRoutes == {"/", "/login", "/register", "/about", "/contact", "/unauthorized"}

requiredRoleOf(path) == IF path = "/dashboard/admin" THEN "ADMIN" ELSE "EMPLOYEE"

\* The guard's redirects lead to public routes, so one more look-up settles
\* the element shown.
RouteElement(store, path) ==
  IF path \in ProtectedRoutes THEN
    LET verdict == PrivateRoute(store, requiredRoleOf(path))
    IN  IF verdict = "children" THEN path ELSE verdict
  ELSE IF path \in PublicRoutes THEN path
  ELSE "404"

(***************************************************************************)
(* pages/auth/Login.tsx and the registration form: the only dispatchers of *)
(* loginUser and registerUser.  After the awaited dispatch returns a       *)
(* fulfilled action each form writes the two storage keys once more.       *)
(***************************************************************************)
LoginOnSubmitSettled(store, action) ==
  IF action.type = "fulfilled"
  THEN setItem(setItem(store, "user", JSONstringify(action.payload.user)),
               "token", action.payload.accessToken)
  ELSE store

RegisterOnSubmitSettled(store, action) ==
  IF action.type = "fulfilled"
  THEN setItem(setItem(store, "token", action.payload.accessToken),
               "user", JSONstringify(action.payload.user))
  ELSE store

\* Where the form sends the router once the awaited dispatch has returned:
\* the login form always to the administrators' dashboard, the registration
\* form to the dashboard of the new user's role.  NoPath: no navigation.
NoPath == ""

LoginOnSubmitNavigates(action) ==
  IF action.type = "fulfilled" THEN "/dashboard/admin" ELSE NoPath

RegisterOnSubmitNavigates(action) ==
  IF action.type # "fulfilled" THEN NoPath
  ELSE IF action.payload.user.role = "ADMIN" THEN "/dashboard/admin"
  ELSE IF action.payload.user.role = "EMPLOYEE" THEN "/dashboard/employee"
  ELSE "/dashboard"

callerNavigates(op, action) ==
  CASE op = "login"    -> LoginOnSubmitNavigates(action)
    [] op = "register" -> RegisterOnSubmitNavigates(action)
    [] OTHER           -> NoPath

callerSettled(op, store, action) ==
  CASE op = "login"    -> LoginOnSubmitSettled(store, action)
    [] op = "register" -> RegisterOnSubmitSettled(store, action)
    [] OTHER           -> store

(***************************************************************************)
(* The dashboards: pages/Dashboards/DashboardAdmin.tsx ("admin"),          *)
(* pages/Dashboards/DashboardEmployee.tsx ("employee") and pages/Home.tsx  *)
(* ("home").  Each is a component holding the page shown by the pager, the *)
(* page count, the user list on display and the submit flag; it calls      *)
(* axios directly.  A JavaScript number is Num(n) or NaN.  The lists of    *)
(* administrators and transactions and the balance are display only and    *)
(* are not kept; their requests and their failure notifications are.       *)
(***************************************************************************)
Num(n) == [t |-> "number", n |-> n]

NaN == [t |-> "NaN"]

DashKinds == {"admin", "employee", "home"}

limit == 10

\* total || 0
OrZero(total) == IF total.t = "number" /\ total.n # 0 THEN total ELSE Num(0)

\* Math.ceil(total / lim) for lim > 0: undefined / lim is NaN.
MathCeilDiv(total, lim) ==
  IF total.t # "number" THEN NaN ELSE Num(-((-total.n) \div lim))

\* page <= totalPages, false when totalPages is NaN.
LessEq(page, pages) == pages.t = "number" /\ page <= pages.n

\* A user list: no rows, or the rows the server holds at a page.
EmptyList == [list |-> "empty"]

ServerPage(page) == [list |-> "page", page |-> page]

\* The name each component gives its users fetch.
usersFetchOf(kind) == IF kind = "home" THEN "fetchUsers" ELSE "fetchEmployees"

ListingFns == {"fetchEmployees", "fetchUsers", "fetchTransactions"}

AuxFetches == {"fetchAdmins", "fetchAdminBalance", "fetchAdminUser"}

Submits == {"onSubmit", "initializeAdminPoints"}

\* A request in flight: the function that issued it, the page it asks for
\* (0: none), what started it and the page the pager showed at the time.
Request(fn, page, origin, at) == [fn |-> fn, page |-> page, origin |-> origin, at |-> at]

\* The default message of each call.
defaultMessage(fn) ==
  CASE fn = "fetchEmployees"        -> <<"Failed to fetch employees">>
    [] fn = "fetchUsers"            -> <<"Failed to fetch users">>
    [] fn = "fetchTransactions"     -> <<"Failed to fetch transactions">>
    [] fn = "fetchAdmins"           -> <<"Failed to fetch admins">>
    [] fn = "fetchAdminBalance"     -> <<"Failed to fetch balance">>
    [] fn = "fetchAdminUser"        -> <<"Failed to fetch admin details">>
    [] fn = "initializeAdminPoints" -> <<"Failed to initialize admin points">>
    [] OTHER                        -> <<"Failed to allocate points">>

defaultMessageOf(kind, fn) ==
  IF kind = "employee" /\ fn = "onSubmit" THEN <<"Failed to transfer points">>
  ELSE defaultMessage(fn)

\* What a call can fail with: an axios error carrying a response (status and
\* error.response.data.message), an axios error without one (no network),
\* or another exception thrown in the success handler.
AxiosError(status, message) == [axios |-> TRUE, status |-> status, message |-> message]

DashErrors ==
  {AxiosError(Num(401), Str(ServerMessage)),
   AxiosError(Num(400), Str(ServerMessage)),
   AxiosError(Num(400), undefined),
   AxiosError(Num(500), undefined),
   [axios |-> FALSE, status |-> undefined, message |-> undefined]}

Unauthorized == <<"Unauthorized: Please log in again">>

BadRequest == <<"Bad Request: ">>

\* handleAxiosError of DashboardEmployee.tsx and Home.tsx.
handleAxiosErrorByStatus(error, default) ==
  IF error.axios THEN
    LET message == IF Truthy(error.message) THEN error.message.s ELSE default
    IN  IF error.status = Num(401) THEN Unauthorized
        ELSE IF error.status = Num(400) THEN BadRequest \o message
        ELSE message
  ELSE default

\* handleAxiosError of DashboardAdmin.tsx.
handleAxiosErrorPlain(error, default) ==
  IF error.axios THEN (IF Truthy(error.message) THEN error.message.s ELSE default)
  ELSE default

handleAxiosError(kind, error, default) ==
  IF kind = "admin" THEN handleAxiosErrorPlain(error, default)
  ELSE handleAxiosErrorByStatus(error, default)

\* response.data of a users listing asked for a page: an object carrying the
\* page's rows and the total, or the rows as a flat array, which has neither
\* a users nor a total property.
Totals == {Num(0), Num(95)}

UsersData(page) ==
  {[isArray |-> FALSE, rows |-> ServerPage(page), total |-> Num(95)],
   [isArray |-> TRUE, rows |-> ServerPage(page), total |-> undefined]}

TransactionsData == {[total |-> t] : t \in Totals}

\* The users the success handler of the users fetch puts on display.
usersOf(kind, data) ==
  IF kind = "admin" THEN data.rows
  ELSE IF data.isArray THEN EmptyList ELSE data.rows

\* The page count the success handler of the users fetch sets.
usersTotalPages(kind, data) ==
  IF kind = "admin" THEN MathCeilDiv(data.total, limit)
  ELSE MathCeilDiv(OrZero(data.total), limit)

\* The requests the effect on [currentPage, limit] issues.
effectRequests(kind, page) ==
  {Request(usersFetchOf(kind), page, "effect", page),
   Request("fetchTransactions", page, "effect", page)}
    \cup CASE kind = "admin" -> {Request("fetchAdmins", 0, "effect", page),
                                 Request("fetchAdminBalance", 0, "effect", page)}
           [] kind = "home"  -> {Request("fetchAdminUser", 0, "effect", page),
                                 Request("fetchAdminBalance", 0, "effect", page)}
           [] OTHER          -> {}

\* The re-fetches of onSubmit's success handler; at: the current page of
\* the render whose handler was submitted.  fetchEmployees() and fetchUsers()
\* are called without arguments: page = 1.
onSubmitThen(kind, at) ==
  CASE kind = "admin" -> {Request("fetchEmployees", 1, "onSubmit", at),
                          Request("fetchAdmins", 0, "onSubmit", at),
                          Request("fetchAdminBalance", 0, "onSubmit", at)}
    [] kind = "home"  -> {Request("fetchUsers", 1, "onSubmit", at),
                          Request("fetchAdminBalance", 0, "onSubmit", at)}
    [] OTHER          -> {Request("fetchEmployees", 1, "onSubmit", at),
                          Request("fetchTransactions", at, "onSubmit", at)}

\* The re-fetches of initializeAdminPoints' success handler.
initializeThen(kind, at) ==
  IF kind = "admin" THEN {Request("fetchAdmins", 0, "initialize", at)}
  ELSE {Request("fetchUsers", 1, "initialize", at),
        Request("fetchAdminBalance", 0, "initialize", at)}

\* Mutant: a failed call is issued again.
catchRequests_retries(req) == {req}

\* The requests a failure handler issues: none.
catchRequests(req) == {}

(***************************************************************************)
(* The state machine                                                       *)
(***************************************************************************)
NoRes == [t |-> "none"]

\* No action dispatched to the reducer by this step.
NoAction == [type |-> "none"]

NoView == [requiredRole |-> "", result |-> "none", userStr |-> null]

NoneInFlight == [op \in Ops |-> 0]

\* No login form and no dashboard on screen; a step that is not theirs.
NoForm == [mounted |-> FALSE, isSubmitting |-> FALSE, own |-> 0]

NoDash == [kind |-> "none"]

NoUi == [t |-> "none"]

InFlightCount == inflight["register"] + inflight["login"] + inflight["getMe"] + inflight["logout"]

\* What localStorage can hold when the page is first loaded: nothing, what a
\* login or register of an earlier visit left behind, or a user entry that
\* does not parse (JSON.stringify of a response without a user is stored
\* as the text undefined).
InitialStorages ==
  {EmptyBag}
    \cup {saveAuthToLocalStorage(EmptyBag, u, t) : u \in Users, t \in Tokens}
    \cup {saveAuthToLocalStorage(EmptyBag, undefined, t) : t \in Tokens}

\* The record of a step: what it was and the state it started from.
Step(kind, op, res, headers) ==
  [kind |-> kind, op |-> op, res |-> res, headers |-> headers, pre |-> auth, preLs |-> ls,
   action |-> NoAction, preView |-> NoView, prevKind |-> "", prevOp |-> "",
   navigate |-> NoPath, ui |-> NoUi]

\* A login and a logout that were in flight together settle one right after
\* the other: the step settling the second one records how the first ended.
RacePair == {"login", "logout"}

SettlesRace(op) ==
  /\ op \in RacePair
  /\ last.op \in RacePair \ {op}
  /\ last.kind \in {"fulfilled", "rejected"}

FirstStep(store) ==
  [kind |-> "load", op |-> "", res |-> NoRes, headers |-> EmptyBag,
   pre |-> NoStore, preLs |-> store,
   action |-> NoAction, preView |-> NoView, prevKind |-> "", prevOp |-> "",
   navigate |-> NoPath, ui |-> NoUi]

\* Evaluation of the slice module at page load.
Load(store) ==
  IF initialStateThrows(store)
  THEN [app |-> "crashed", auth |-> NoStore]
  ELSE [app |-> "running", auth |-> initialState(store)]

Init ==
  /\ ls \in InitialStorages
  /\ app = Load(ls).app
  /\ auth = Load(ls).auth
  /\ defaults = EmptyBag
  /\ inflight = NoneInFlight
  /\ view = NoView
  /\ form = NoForm
  /\ dash = NoDash
  /\ last = FirstStep(ls)

\* The user reloads the page: every module is evaluated afresh, requests in
\* flight are abandoned, localStorage survives.
Reload ==
  /\ app' = Load(ls).app
  /\ auth' = Load(ls).auth
  /\ defaults' = EmptyBag
  /\ inflight' = NoneInFlight
  /\ view' = NoView
  /\ last' = Step("load", "", NoRes, EmptyBag)
  /\ UNCHANGED <<ls, form, dash>>

\* dispatch(thunk()): the pending reducer runs and the request leaves with
\* the headers the interceptor gives it.
DispatchStep(op) ==
  /\ app = "running"
  /\ InFlightCount < MaxInFlight
  /\ auth' = pendingReducer(auth, op)
  /\ inflight' = [inflight EXCEPT ![op] = @ + 1]
  /\ last' = Step("dispatch", op, NoRes, requestInterceptor(ls, defaults))
  /\ UNCHANGED <<app, ls, defaults>>

\* view is the verdict of the guard when the step rendered a protected route:
\* a step that renders none leaves no verdict.
Dispatch(op) == DispatchStep(op) /\ view' = NoView /\ UNCHANGED <<form, dash>>

\* The response of one request in flight arrives: the rest of the thunk, the
\* fulfilled or rejected reducer, and the rest of the calling form handler.
SettleStep(op, res) ==
  /\ app = "running"
  /\ inflight[op] > 0
  /\ LET r == thunk(op, ls, defaults, res)
     IN  /\ ls' = callerSettled(op, r.store, r.action)
         /\ defaults' = r.common
         /\ auth' = settledReducer(auth, op, r.action)
         /\ last' = [Step(IF res.ok THEN "fulfilled" ELSE "rejected", op, res, EmptyBag)
                       EXCEPT !.action = r.action,
                              !.navigate = callerNavigates(op, r.action),
                              !.prevKind = IF SettlesRace(op) THEN last.kind ELSE "",
                              !.prevOp = IF SettlesRace(op) THEN last.op ELSE ""]
  /\ inflight' = [inflight EXCEPT ![op] = @ - 1]
  /\ UNCHANGED app

Settle(op, res) == SettleStep(op, res) /\ view' = NoView /\ UNCHANGED <<form, dash>>

\* dispatch(clearError()): the one plain reducer of the slice.
ClearError ==
  /\ app = "running"
  /\ auth' = clearError(auth)
  /\ view' = NoView
  /\ last' = Step("clearError", "", NoRes, EmptyBag)
  /\ UNCHANGED <<app, ls, defaults, inflight, form, dash>>

\* The router renders a protected route.
Render(requiredRole) ==
  /\ app = "running"
  /\ view' = [requiredRole |-> requiredRole, result |-> PrivateRoute(ls, requiredRole),
              userStr |-> getItem(ls, "user")]
  /\ last' = [Step("render", "", NoRes, EmptyBag) EXCEPT !.preView = view]
  /\ UNCHANGED <<app, auth, ls, defaults, inflight, form, dash>>

Next ==
  \/ Reload
  \/ ClearError
  \/ \E op \in Ops : Dispatch(op)
  \/ \E op \in Ops : \E res \in Responses(op) : Settle(op, res)
  \/ \E requiredRole \in Roles : Render(requiredRole)

Spec == Init /\ [][Next]_vars

(***************************************************************************)
(* The route guard on its own: PrivateRoute applied to whatever the 'user' *)
(* key can hold, including texts only another writer of the origin's       *)
(* localStorage can leave there while the application is running.          *)
(***************************************************************************)
GuardUserTexts ==
  {JSONstringify(u) : u \in Users} \cup {<<>>, <<"undefined">>, <<"null">>, <<"{">>}

GuardStorages ==
  {EmptyBag, setItem(EmptyBag, "token", <<"t1">>)}
    \cup {setItem(EmptyBag, "user", x) : x \in GuardUserTexts}
    \cup {setItem(setItem(EmptyBag, "user", x), "token", <<"t1">>) : x \in GuardUserTexts}

GuardInit ==
  /\ ls \in GuardStorages
  /\ app = "running"
  /\ auth = NoStore
  /\ defaults = EmptyBag
  /\ inflight = NoneInFlight
  /\ view = NoView
  /\ form = NoForm
  /\ dash = NoDash
  /\ last = FirstStep(ls)

\* localStorage is rewritten between two renders.
StorageChange ==
  /\ ls' \in GuardStorages
  /\ last' = Step("storage", "", NoRes, EmptyBag)
  /\ UNCHANGED <<app, auth, defaults, inflight, view, form, dash>>

GuardNext ==
  \/ StorageChange
  \/ \E requiredRole \in Roles : Render(requiredRole)

GuardSpec == GuardInit /\ [][GuardNext]_vars

(***************************************************************************)
(* The route guard next to the session store: the same session operations, *)
(* with the verdict of the latest render remembered across them, so that   *)
(* two renders separated by session operations can be compared.            *)
(***************************************************************************)
\* The operations the login view and a logout control start: between them
\* they write every field of the session.
RouteOps == {"login", "logout"}

RouteDispatch(op) == DispatchStep(op) /\ UNCHANGED <<view, form, dash>>

RouteSettle(op, res) == SettleStep(op, res) /\ UNCHANGED <<view, form, dash>>

RouteNext ==
  \/ \E op \in RouteOps : RouteDispatch(op)
  \/ \E op \in RouteOps : \E res \in Responses(op) : RouteSettle(op, res)
  \/ \E requiredRole \in Roles : Render(requiredRole)

RouteSpec == Init /\ [][RouteNext]_vars

(***************************************************************************)
(* The dashboards: a visit opens one dashboard straight after the page     *)
(* load.                                                                   *)
(***************************************************************************)
\* Storage left by an earlier login of an administrator or of an employee.
DashStorages == {saveAuthToLocalStorage(EmptyBag, u, <<"t1">>) : u \in Users}

\* The pages the controls of the pager ask for: the first two, the one
\* before them and the one after the last page of a listing of 95 rows.
PageInputs == {0, 1, 2, 11}

pathOf(kind) ==
  CASE kind = "admin"    -> "/dashboard/admin"
    [] kind = "employee" -> "/dashboard/employee"
    [] OTHER             -> "/"

\* What the server can answer to a request.
DashResponses(req) ==
  {[ok |-> FALSE, error |-> e] : e \in DashErrors} \cup
    IF req.fn \in {"fetchEmployees", "fetchUsers"}
    THEN {[ok |-> TRUE, data |-> d] : d \in UsersData(req.page)}
    ELSE IF req.fn = "fetchTransactions"
    THEN {[ok |-> TRUE, data |-> d] : d \in TransactionsData}
    ELSE {[ok |-> TRUE, data |-> null]}

\* setIsLoadingTransactions(true) / setLoadingState('transactions', true) at
\* the start of fetchTransactions.
loadsTransactions(issued) == \E r \in issued : r.fn = "fetchTransactions"

\* The requests issued by a step fit next to those in flight.
Fits(issued) ==
  /\ issued \cap dash.pending = {}
  /\ Cardinality(dash.pending \cup issued) <= MaxFetches

\* The record of a step of a dashboard: the request concerned, the error
\* notification shown, the requests issued and, for the second of the two
\* listing responses of one effect, the total the first one carried.
NoRequest == Request("", 0, "", 0)

NoToast == null

NoTotal == [t |-> "none"]

DashStep(kind, req, res, toast, issued, firstTotal) ==
  [Step(kind, req.fn, res, EmptyBag)
     EXCEPT !.ui = [req |-> req, toast |-> toast, issued |-> issued,
                    firstTotal |-> firstTotal]]

DashInit ==
  /\ ls \in DashStorages
  /\ app = Load(ls).app
  /\ auth = Load(ls).auth
  /\ defaults = EmptyBag
  /\ inflight = NoneInFlight
  /\ view = NoView
  /\ form = NoForm
  /\ dash = NoDash
  /\ last = FirstStep(ls)

\* The router shows a dashboard: useState initial values, then the effect.
Mount(kind) ==
  /\ app = "running"
  /\ dash = NoDash
  /\ last.kind = "load"
  /\ RouteElement(ls, pathOf(kind)) = pathOf(kind)
  /\ Cardinality(effectRequests(kind, 1)) <= MaxFetches
  /\ dash' = [kind |-> kind, currentPage |-> 1, totalPages |-> Num(1),
              employees |-> EmptyList, isSubmitting |-> FALSE,
              loadingTransactions |-> TRUE,
              pending |-> effectRequests(kind, 1)]
  /\ last' = DashStep("mount", NoRequest, NoRes, NoToast, effectRequests(kind, 1), NoTotal)
  /\ UNCHANGED <<app, auth, ls, defaults, inflight, view, form>>

\* handlePageChange(page), and the effect when currentPage has changed.  The
\* pager is rendered only while the transactions are not loading.
handlePageChange(page) ==
  /\ dash # NoDash
  /\ ~dash.loadingTransactions
  /\ LET accepted == page >= 1 /\ LessEq(page, dash.totalPages)
         issued   == IF accepted /\ page # dash.currentPage
                     THEN effectRequests(dash.kind, page) ELSE {}
     IN  /\ Fits(issued)
         /\ dash' = [dash EXCEPT !.currentPage = IF accepted THEN page ELSE @,
                                 !.loadingTransactions = loadsTransactions(issued),
                                 !.pending = @ \cup issued]
         /\ last' = DashStep("pageChange", NoRequest, NoRes, NoToast, issued, NoTotal)
  /\ UNCHANGED <<app, auth, ls, defaults, inflight, view, form>>

\* onSubmit or initializeAdminPoints: both buttons are disabled while
\* isSubmitting; the employees' dashboard has no initialize button.
Submit(fn) ==
  /\ dash # NoDash
  /\ ~dash.isSubmitting
  /\ fn = "initializeAdminPoints" => dash.kind # "employee"
  /\ LET req == Request(fn, 0, "user", dash.currentPage)
     IN  /\ Fits({req})
         /\ dash' = [dash EXCEPT !.isSubmitting = TRUE, !.pending = @ \cup {req}]
         /\ last' = DashStep("submit", req, NoRes, NoToast, {req}, NoTotal)
  /\ UNCHANGED <<app, auth, ls, defaults, inflight, view, form>>

\* The two listing fetches of one effect answered one right after the other.
SecondOfPair(req) ==
  /\ last.kind = "settled"
  /\ last.res.ok
  /\ req.origin = "effect" /\ last.ui.req.origin = "effect"
  /\ last.ui.req.at = req.at
  /\ {last.ui.req.fn, req.fn} = {usersFetchOf(dash.kind), "fetchTransactions"}

\* The component after the .then / .catch / .finally of a request.
settled(d, req, res) ==
  LET users == req.fn \in {"fetchEmployees", "fetchUsers"}
  IN  [d EXCEPT
         !.employees    = IF ~users THEN @
                          ELSE IF res.ok THEN usersOf(d.kind, res.data) ELSE EmptyList,
         !.totalPages   = IF ~res.ok THEN @
                          ELSE IF users THEN usersTotalPages(d.kind, res.data)
                          ELSE IF req.fn = "fetchTransactions"
                               THEN MathCeilDiv(res.data.total, limit)
                          ELSE @,
         !.loadingTransactions = IF req.fn = "fetchTransactions" THEN FALSE ELSE @,
         !.isSubmitting = IF req.fn \in Submits THEN FALSE ELSE @]

\* The requests the handlers of a response issue.
settledRequests(kind, req, res) ==
  IF ~res.ok THEN catchRequests(req)
  ELSE IF req.fn = "onSubmit" THEN onSubmitThen(kind, req.at)
  ELSE IF req.fn = "initializeAdminPoints" THEN initializeThen(kind, req.at)
  ELSE {}

\* The response of a request of the dashboard arrives.
DashSettle(req, res) ==
  /\ dash # NoDash
  /\ req \in dash.pending
  /\ LET issued == settledRequests(dash.kind, req, res)
         rest   == [dash EXCEPT !.pending = @ \ {req}]
     IN  /\ issued \cap rest.pending = {}
         /\ Cardinality(rest.pending \cup issued) <= MaxFetches
         /\ dash' = [settled(rest, req, res)
                       EXCEPT !.loadingTransactions = @ \/ loadsTransactions(issued),
                              !.pending = @ \cup issued]
         /\ last' = DashStep("settled", req, res,
                             IF res.ok THEN NoToast
                             ELSE Str(handleAxiosError(dash.kind, res.error,
                                                       defaultMessageOf(dash.kind, req.fn))),
                             issued,
                             IF SecondOfPair(req) THEN last.res.data.total ELSE NoTotal)
  /\ UNCHANGED <<app, auth, ls, defaults, inflight, view, form>>

Pending == IF dash = NoDash THEN {} ELSE dash.pending

\* The visits followed: each stored user opens the dashboard of its role,
\* and the administrator also the home page, which is public and shows the
\* administrators' panel.
Opens(kind) == kind = "home" => PrivateRoute(ls, "ADMIN") = "children"

DashNext ==
  \/ \E kind \in DashKinds : Opens(kind) /\ Mount(kind)
  \/ \E page \in PageInputs : handlePageChange(page)
  \/ \E fn \in Submits : Submit(fn)
  \/ \E req \in Pending : \E res \in DashResponses(req) : DashSettle(req, res)

DashSpec == DashInit /\ [][DashNext]_vars

(***************************************************************************)
(* Every sender of HTTP requests together: a visit either runs session     *)
(* operations or opens one dashboard, the two sharing nothing but the      *)
(* stored token, which the dashboards only read.  Each request is answered *)
(* by its usual success or by a plain failure, and the dashboards opened   *)
(* are the two behind the route guard.                                     *)
(***************************************************************************)
GuardedDashboards == {kind \in DashKinds : pathOf(kind) \in ProtectedRoutes}

UsualSessionResponses(op) ==
  {res \in Responses(op) :
     IF ~res.ok THEN res.error = undefined
     ELSE \/ res.data = null
          \/ res.data \in Users /\ res.data.role = "ADMIN"
          \/ res.data \in AuthResponses /\ res.data.user.role = "ADMIN"
                /\ res.data.accessToken = <<"t1">>}

\* The session operations of a visit that opens no dashboard.
RequestDispatch(op) == dash = NoDash /\ Dispatch(op)

RequestSettle(op, res) == dash = NoDash /\ Settle(op, res)

UsualResponses(req) ==
  {res \in DashResponses(req) :
     IF res.ok THEN res.data = null \/ res.data.total = Num(95)
     ELSE res.error = AxiosError(Num(500), undefined)}

RequestNext ==
  \/ \E op \in Ops : RequestDispatch(op)
  \/ \E op \in Ops : \E res \in UsualSessionResponses(op) : RequestSettle(op, res)
  \/ \E kind \in GuardedDashboards : Mount(kind)
  \/ \E page \in PageInputs : handlePageChange(page)
  \/ \E fn \in Submits : Submit(fn)
  \/ \E req \in Pending : \E res \in UsualResponses(req) : DashSettle(req, res)

RequestSpec == DashInit /\ [][RequestNext]_vars

(***************************************************************************)
(* The login form (pages/auth/Login.tsx) next to the session store.  form  *)
(* is the instance on screen: its isSubmitting state and the number of     *)
(* login requests in flight that it dispatched itself (requests of an      *)
(* instance that has left the screen stay in flight and still settle).     *)
(***************************************************************************)
FreshForm == [mounted |-> TRUE, isSubmitting |-> FALSE, own |-> 0]

FormInit ==
  /\ ls \in InitialStorages
  /\ app = Load(ls).app
  /\ auth = Load(ls).auth
  /\ defaults = EmptyBag
  /\ inflight = NoneInFlight
  /\ view = NoView
  /\ form = FreshForm
  /\ dash = NoDash
  /\ last = FirstStep(ls)

\* Mutant: onSubmit never returns early.
onSubmitReturnsEarly_never(f) == FALSE

\* if (isSubmitting) return;
onSubmitReturnsEarly(f) == f.isSubmitting

\* handleSubmit(onSubmit) up to the await.
LoginOnSubmit ==
  /\ app = "running"
  /\ form.mounted
  /\ IF onSubmitReturnsEarly(form)
     THEN /\ last' = Step("submit", "", NoRes, EmptyBag)
          /\ UNCHANGED <<app, auth, ls, defaults, inflight, form>>
     ELSE /\ DispatchStep("login")
          /\ form' = [form EXCEPT !.isSubmitting = TRUE, !.own = @ + 1]
  /\ view' = NoView
  /\ UNCHANGED dash

\* The form after the await: a fulfilled login navigates away, whichever
\* instance dispatched it; otherwise finally resets the instance's flag.
LoginOnSubmitFinally(f, res, mine) ==
  IF res.ok THEN NoForm
  ELSE IF mine THEN [f EXCEPT !.isSubmitting = FALSE, !.own = @ - 1]
  ELSE f

\* The response of a login arrives: one dispatched by the instance on
\* screen (mine) or by an earlier one.
LoginSettle(res, mine) ==
  /\ IF mine THEN form.own > 0 ELSE inflight["login"] > form.own
  /\ SettleStep("login", res)
  /\ form' = LoginOnSubmitFinally(form, res, mine)
  /\ view' = NoView
  /\ UNCHANGED dash

\* The router shows /login, or leaves it.
FormMount ==
  /\ app = "running"
  /\ ~form.mounted
  /\ form' = FreshForm
  /\ last' = Step("formMount", "", NoRes, EmptyBag)
  /\ UNCHANGED <<app, auth, ls, defaults, inflight, view, dash>>

FormUnmount ==
  /\ app = "running"
  /\ form.mounted
  /\ form' = NoForm
  /\ last' = Step("formUnmount", "", NoRes, EmptyBag)
  /\ UNCHANGED <<app, auth, ls, defaults, inflight, view, dash>>

FormNext ==
  \/ LoginOnSubmit
  \/ \E res \in Responses("login") : \E mine \in BOOLEAN : LoginSettle(res, mine)
  \/ FormMount
  \/ FormUnmount

FormSpec == FormInit /\ [][FormNext]_vars

(***************************************************************************)
(* Properties                                                              *)
(***************************************************************************)
Settled(op, kind) == last.op = op /\ last.kind = kind

SessionCleared == auth.user = null /\ auth.token = null /\ ~auth.isAuthenticated

StorageCleared == "user" \notin DOMAIN ls /\ "token" \notin DOMAIN ls

SessionKept ==
  /\ auth.user = last.pre.user
  /\ auth.token = last.pre.token
  /\ auth.isAuthenticated = last.pre.isAuthenticated

\* The message a failed call must surface: the server's when it sent one,
\* otherwise the operation's default.
ExpectedError(default) ==
  IF last.res.error.t = "string" /\ last.res.error.s # <<>>
  THEN Str(last.res.error.s)
  ELSE Str(default)

\* C1: in every reachable state of the session store, isAuthenticated = true
\* implies that the in-memory credential token is non-null.
C1_AuthenticatedImpliesToken ==
  app = "running" => (auth.isAuthenticated => auth.token # null)

\* C2 as claimed: after a logout resolves, fulfilled or rejected, the in-memory
\* session is cleared and the storage keys 'user' and 'token' are removed.
C2_LogoutAlwaysClears ==
  (last.op = "logout" /\ last.kind \in {"fulfilled", "rejected"})
    => (SessionCleared /\ StorageCleared)

\* C2 amended: a fulfilled logout clears the in-memory session, lastError and
\* both storage keys; a rejected logout leaves currentUser, credentialToken,
\* isAuthenticated and storage as they were and sets lastError to the server
\* message or "Logout failed"; either way isPending becomes false.
C2_LogoutClearsOnSuccessOnly ==
  /\ Settled("logout", "fulfilled")
       => (SessionCleared /\ StorageCleared /\ auth.error = null /\ ~auth.loading)
  /\ Settled("logout", "rejected")
       => /\ SessionKept
          /\ ls = last.preLs
          /\ auth.error = ExpectedError(<<"Logout failed">>)
          /\ ~auth.loading

\* C2 witness: a logout was rejected while a session was held, and it is still held.
C2_Witness ==
  /\ Settled("logout", "rejected")
  /\ last.pre.isAuthenticated /\ auth.isAuthenticated
  /\ auth.user # null /\ "token" \in DOMAIN ls

\* C3: in every reachable state (every step of the model being a whole
\* response-to-reducer unit), the user record and token in durable storage
\* equal the in-memory currentUser and credentialToken: both present and
\* equal, or both absent.
C3_StorageMatchesMemory ==
  app = "running" =>
    /\ auth.token = getItem(ls, "token")
    /\ IF "user" \in DOMAIN ls
       THEN JSONparse(ls["user"]).ok /\ auth.user = JSONparse(ls["user"]).value
       ELSE auth.user = null

\* C4: right after a login is fulfilled with user u and accessToken t,
\* currentUser = u, credentialToken = t, isAuthenticated, lastError = null and
\* storage holds 'user' = serialized u and 'token' = t.
C4_LoginSuccess ==
  Settled("login", "fulfilled") =>
    /\ auth.user = last.res.data.user
    /\ auth.token = Str(last.res.data.accessToken)
    /\ auth.isAuthenticated
    /\ auth.error = null
    /\ DOMAIN ls = {"user", "token"}
    /\ ls["user"] = JSONstringify(last.res.data.user)
    /\ ls["token"] = last.res.data.accessToken

\* C4 witness: a login succeeded over a session of another user and token.
C4_Witness ==
  /\ Settled("login", "fulfilled")
  /\ last.pre.user # null /\ last.pre.user # auth.user
  /\ last.pre.token # null /\ last.pre.token # auth.token

\* C5: right after a login is rejected, from any prior state, currentUser and
\* credentialToken are null, isAuthenticated is false and lastError is the
\* server's message when it sent one, otherwise exactly "Invalid credentials".
C5_LoginFailure ==
  Settled("login", "rejected") =>
    /\ SessionCleared
    /\ auth.error = ExpectedError(<<"Invalid credentials">>)

\* C5 witness: a login failed without a server message while a session was held.
C5_Witness ==
  /\ Settled("login", "rejected")
  /\ last.res.error = undefined
  /\ last.pre.isAuthenticated /\ last.pre.user # null

\* C6: a register that fails changes nothing of the authentication state:
\* neither its dispatch nor its rejected outcome changes currentUser,
\* credentialToken, isAuthenticated or the storage keys, and after the rejected
\* outcome lastError is the server message or "Registration failed".
C6_RegisterFailureKeepsSession ==
  /\ (last.op = "register" /\ last.kind \in {"dispatch", "rejected"})
       => (SessionKept /\ ls = last.preLs)
  /\ Settled("register", "rejected")
       => auth.error = ExpectedError(<<"Registration failed">>)

\* C6 witness: a register was rejected while a session was held, and it is still held.
C6_Witness ==
  /\ Settled("register", "rejected")
  /\ last.pre.isAuthenticated /\ auth.isAuthenticated
  /\ auth.user # null /\ auth.token # null
  /\ DOMAIN ls = {"user", "token"}

\* C7: right after a getMe is rejected, currentUser and credentialToken are
\* null, isAuthenticated is false, the storage keys 'user' and 'token' are
\* absent and lastError is the server message or "Failed to fetch user".
C7_GetMeFailureClears ==
  Settled("getMe", "rejected") =>
    /\ SessionCleared
    /\ StorageCleared
    /\ auth.error = ExpectedError(<<"Failed to fetch user">>)

\* C7 witness: a getMe failed while a session was held in memory and in storage.
C7_Witness ==
  /\ Settled("getMe", "rejected")
  /\ last.pre.isAuthenticated /\ last.pre.user # null
  /\ DOMAIN last.preLs = {"user", "token"}

\* C8: every request sent through the shared client carries Authorization:
\* Bearer t when storage holds the token t at send time, and carries no
\* Authorization header when storage holds no token.
C8_BearerIffStoredToken ==
  last.kind = "dispatch" =>
    /\ ("token" \in DOMAIN ls /\ ls["token"] # <<>>)
         => /\ "Authorization" \in DOMAIN last.headers
            /\ last.headers["Authorization"] = <<"Bearer ">> \o ls["token"]
    /\ "token" \notin DOMAIN ls => "Authorization" \notin DOMAIN last.headers

\* C9: the guard's result depends on the stored 'user' value and the required
\* role only: absent gives /login; present but not parseable gives /login;
\* parseable with another role gives /unauthorized; parseable with the
\* required role renders the protected content, and nothing else does.
C9_GuardDecision ==
  last.kind = "render" =>
    LET R        == view.requiredRole
        present  == "user" \in DOMAIN ls
        isUserOf == [role \in Roles |->
                       present /\ \E n \in 0..9 : ls["user"] =
                         <<"{", "\"id\":", Digits[n + 1], ",", "\"role\":",
                           "\"" \o role \o "\"", "}">>]
        parses   == present /\ (ls["user"] = <<"null">> \/ \E role \in Roles : isUserOf[role])
    IN  /\ ~present => view.result = "/login"
        /\ (present /\ ~parses) => view.result = "/login"
        /\ (parses /\ ~isUserOf[R]) => view.result = "/unauthorized"
        /\ isUserOf[R] => view.result = "children"
        /\ view.result = "children" => isUserOf[R]

\* C9 witness: the guard turned away a stored EMPLOYEE from the ADMIN view.
C9_Witness ==
  /\ last.kind = "render"
  /\ view.requiredRole = "ADMIN" /\ view.result = "/unauthorized"
  /\ "user" \in DOMAIN ls
  /\ ls["user"] = JSONstringify([id |-> 2, role |-> "EMPLOYEE"])

\* C10: at page load, storage holding a serialized user record u and a token t
\* gives isAuthenticated, currentUser = u and credentialToken = t; empty
\* storage gives currentUser = null, credentialToken = null, isAuthenticated =
\* false, lastError = null and isPending = false.
C10_Rehydration ==
  last.kind = "load" =>
    /\ \A u \in Users : \A t \in Tokens :
         ls = [k \in {"user", "token"} |->
                 IF k = "token" THEN t
                 ELSE <<"{", "\"id\":", Digits[u.id + 1], ",", "\"role\":",
                        "\"" \o u.role \o "\"", "}">>]
           => /\ app = "running"
              /\ auth.isAuthenticated
              /\ auth.user = u
              /\ auth.token = Str(t)
    /\ DOMAIN ls = {}
         => /\ app = "running"
            /\ auth = [user |-> null, token |-> null, isAuthenticated |-> FALSE,
                       error |-> null, loading |-> FALSE]

\* C10 witness: a reload rehydrated a session from storage after a failed
\* login had emptied the in-memory one.
C10_Witness ==
  /\ last.kind = "load"
  /\ last.pre.error # null /\ ~last.pre.isAuthenticated
  /\ auth.isAuthenticated /\ auth.user # null /\ auth.token # null

\* C11: when the stored 'user' value is not valid serialized data, session
\* initialization does not fail and yields an empty session.
C11_CorruptStorageLoadsEmpty ==
  (/\ last.kind = "load"
   /\ "user" \in DOMAIN ls /\ ls["user"] # <<>>
   /\ ~JSONparse(ls["user"]).ok)
    => (app = "running" /\ SessionCleared)

\* The session was logged out before the step: no user, no token, empty storage.
LoggedOutBefore ==
  /\ last.pre.user = null /\ last.pre.token = null /\ ~last.pre.isAuthenticated
  /\ DOMAIN last.preLs = {}

\* C12 as claimed: a logout settling on an already logged-out session leaves
\* it in the same cleared state, lastError included, whatever the answer.
C12_LogoutKeepsClearedStateAndError ==
  (last.op = "logout" /\ last.kind \in {"fulfilled", "rejected"} /\ LoggedOutBefore)
    => (app = "running" /\ SessionCleared /\ StorageCleared
        /\ auth.error = last.pre.error)

\* C12 amended: on an already logged-out session no step of a logout throws
\* and each leaves currentUser, credentialToken and isAuthenticated cleared and
\* storage empty; lastError is left alone by the dispatch, becomes null when
\* the remote call succeeds and the server message or "Logout failed" when it
\* fails.
C12_LogoutIdempotent ==
  (last.op = "logout" /\ LoggedOutBefore) =>
    /\ app = "running" /\ SessionCleared /\ StorageCleared
    /\ last.kind = "dispatch" => auth.error = last.pre.error
    /\ last.kind = "fulfilled" => auth.error = null
    /\ last.kind = "rejected" => auth.error = ExpectedError(<<"Logout failed">>)

\* C12 witness: a logout succeeded on a logged-out session that held the
\* error of an earlier failure.
C12_Witness ==
  /\ Settled("logout", "fulfilled")
  /\ LoggedOutBefore
  /\ last.pre.error # null
  /\ SessionCleared /\ StorageCleared

\* C13: in every reachable state of the session store, currentUser is present
\* if and only if credentialToken is present.
C13_UserIffToken ==
  app = "running" => ((auth.user # null) <=> (auth.token # null))

\* C14: a dispatch applies the pending outcome and puts exactly one request in
\* flight; each response takes exactly one request of its operation out of
\* flight and gives the reducer exactly one action, fulfilled for a successful
\* call and rejected with a non-empty message for a failed one, and the store
\* keeps running (nothing escapes it).
C14_PendingThenOneOutcome ==
  [][/\ (\E op \in Ops : inflight'[op] > inflight[op])
          => /\ last'.kind = "dispatch"
             /\ auth'.loading
             /\ inflight' = [inflight EXCEPT ![last'.op] = @ + 1]
     /\ last'.kind \in {"fulfilled", "rejected"}
          => /\ inflight[last'.op] > 0
             /\ inflight' = [inflight EXCEPT ![last'.op] = @ - 1]
             /\ last'.action.type = (IF last'.res.ok THEN "fulfilled" ELSE "rejected")
             /\ (~last'.res.ok) => (last'.action.payload.t = "string"
                                    /\ last'.action.payload.s # <<>>)
             /\ app' = "running"]_vars

\* C14 witness: a failed logout ended as a rejected outcome carrying the
\* default message while another request was still in flight.
C14_Witness ==
  /\ Settled("logout", "rejected")
  /\ last.action = [type |-> "rejected", payload |-> Str(<<"Logout failed">>)]
  /\ InFlightCount > 0

\* C15: in every reachable state, credentialToken non-null implies
\* isAuthenticated = true.
C15_TokenImpliesAuthenticated ==
  auth.token # null => auth.isAuthenticated

\* C15 witness: a register gave a token to a session that had none.
C15_Witness ==
  /\ Settled("register", "fulfilled")
  /\ last.pre.token = null /\ ~last.pre.isAuthenticated
  /\ auth.token # null /\ auth.isAuthenticated

\* What a fulfilled getMe does apart from the stored token.
GetMeSuccessCore ==
  /\ auth.user = last.res.data
  /\ auth.isAuthenticated
  /\ "user" \in DOMAIN ls
  /\ ls["user"] = <<"{", "\"id\":", Digits[last.res.data.id + 1], ",", "\"role\":",
                    "\"" \o last.res.data.role \o "\"", "}">>
  /\ auth.token = last.pre.token

C17_LoadingWhileInFlight ==
  InFlightCount > 0 => auth.loading

\* The session fields a settled outcome sets on its own.
LoginOutcomeWins ==
  IF last.res.ok
  THEN /\ auth.user = last.res.data.user
       /\ auth.token = Str(last.res.data.accessToken)
       /\ auth.isAuthenticated
  ELSE SessionCleared

\* C18 as claimed: when a login and a logout were in flight together and both
\* have resolved, currentUser, credentialToken and isAuthenticated are those
\* the operation resolved last sets on its own: the login's user and token or
\* a cleared session for a login, a cleared session for a logout.
C18_LastResponseWins ==
  last.prevOp # "" =>
    IF last.op = "login" THEN LoginOutcomeWins ELSE SessionCleared

\* C18 amended: as claimed, except when the operation resolved last is a
\* rejected logout: it sets none of the three fields, which stay as the login
\* outcome resolved before it left them.
C18_LastWriterWins ==
  last.prevOp # "" =>
    CASE last.op = "login" -> LoginOutcomeWins
      [] last.op = "logout" /\ last.kind = "fulfilled" -> SessionCleared
      [] last.op = "logout" /\ last.kind = "rejected" ->
           /\ SessionKept
           /\ IF last.prevKind = "fulfilled"
              THEN auth.user # null /\ auth.token # null /\ auth.isAuthenticated
              ELSE SessionCleared

\* C18 witness: the login resolved first and succeeded, the logout resolved
\* last and failed, and the session is the one the login set.
C18_Witness ==
  /\ last.prevOp = "login" /\ last.prevKind = "fulfilled"
  /\ Settled("logout", "rejected")
  /\ auth.isAuthenticated /\ auth.user # null /\ auth.token # null

\* C19: in every state where no session operation is in flight, the guard
\* renders protected content for role R only if the in-memory session is
\* authenticated with a currentUser whose role is R.
C19_GuardAgreesWithSession ==
  (last.kind = "render" /\ InFlightCount = 0 /\ view.result = "children")
    => (auth.isAuthenticated /\ auth.user # null /\ auth.user.role = view.requiredRole)

\* C20: two renders of the guard with the same stored 'user' value and the
\* same required role give the same result, whatever the in-memory session
\* (and the stored token) are at each of them.
C20_GuardIgnoresSessionStore ==
  (/\ last.kind = "render"
   /\ last.preView.result # "none"
   /\ last.preView.requiredRole = view.requiredRole
   /\ last.preView.userStr = view.userStr)
    => view.result = last.preView.result

\* C20 witness: the guard rendered the protected content again, for the same
\* stored user and role, after the in-memory session had been emptied.
C20_Witness ==
  /\ last.kind = "render"
  /\ last.preView.result = "children" /\ view.result = "children"
  /\ last.preView.requiredRole = view.requiredRole
  /\ last.preView.userStr = view.userStr
  /\ auth.user = null /\ auth.token = null /\ ~auth.isAuthenticated

\* C21 as stated: a step that is not a step of register, login, getMe or
\* logout (and is not the page load that creates the session) leaves the
\* five session fields and the two storage keys as they were.
SessionOperationStep == last.kind \in {"dispatch", "fulfilled", "rejected"}

C21_OnlySessionOperationsWrite ==
  (last.kind # "load" /\ ~SessionOperationStep)
    => (auth = last.pre /\ ls = last.preLs)

\* C21: a step outside the four session operations leaves the storage keys
\* and the session fields as they were, except that clearError sets lastError
\* to null (and nothing else).
C21_OnlySessionOperationsAndClearErrorWrite ==
  (last.kind # "load" /\ ~SessionOperationStep)
    => /\ ls = last.preLs
       /\ auth = IF last.kind = "clearError" THEN [last.pre EXCEPT !.error = null]
                 ELSE last.pre

\* C21 witness: clearError ran on a session that held a user and an error.
C21_Witness ==
  /\ last.kind = "clearError"
  /\ last.pre.error # null /\ last.pre.user # null
  /\ auth.error = null /\ auth.user = last.pre.user

\* C25: right after a fulfilled login the path the login form navigated to
\* shows that very view: the guard neither sends the user to /login nor to
\* /unauthorized.
C25_LoginLandsOnAdmittedView ==
  Settled("login", "fulfilled")
    => /\ last.navigate \in ProtectedRoutes
       /\ RouteElement(ls, last.navigate) = last.navigate

\* C26: whenever the key 'user' is present in storage, the key 'token' is
\* present with a non-empty value.
C26_StoredUserHasToken ==
  getItem(ls, "user") # null => Truthy(getItem(ls, "token"))

\* A listing fetch (users or transactions) of the dashboard has just succeeded.
ListingFetched == last.kind = "settled" /\ last.res.ok /\ last.op \in ListingFns

\* The least k with k * lim >= n, for n >= 0.
Ceiling(n, lim) == CHOOSE k \in 0..n : k * lim >= n /\ (k - 1) * lim < n

\* C22: after a successful listing fetch the page count is a non-negative
\* integer, equal to ceiling(total / 10) when the response carries a total:
\* 10 for total = 95 and 0 for total = 0.
C22_TotalPagesIsCeiling ==
  ListingFetched
    => /\ dash.totalPages.t = "number"
       /\ dash.totalPages.n >= 0
       /\ last.res.data.total.t = "number"
            => dash.totalPages = Num(Ceiling(last.res.data.total.n, limit))
       /\ last.res.data.total = Num(95) => dash.totalPages = Num(10)
       /\ last.res.data.total = Num(0) => dash.totalPages = Num(0)

\* C23: no step re-sends a request.  A dispatch puts one session request in
\* flight and a session response none; a dashboard's submit sends one
\* request; a failed dashboard response sends none; the requests a mount, a
\* page change or a successful response send are one per fetch function, and
\* none of them repeats the call just answered.
SentNow == Pending' \ Pending

C23_NoRetry ==
  [][/\ last'.kind = "dispatch" => InFlightCount' = InFlightCount + 1
     /\ last'.kind \in {"fulfilled", "rejected"} => InFlightCount' = InFlightCount - 1
     /\ last'.kind \in {"mount", "pageChange", "submit", "settled"}
          => /\ InFlightCount' = InFlightCount
             /\ SentNow = last'.ui.issued
             /\ \A r1, r2 \in SentNow : r1.fn = r2.fn => r1 = r2
     /\ last'.kind = "submit" => Cardinality(SentNow) = 1
     /\ last'.kind = "settled"
          => /\ Pending' = (Pending \ {last'.ui.req}) \cup SentNow
             /\ \A r \in SentNow : r.fn # last'.ui.req.fn
             /\ ~last'.res.ok => SentNow = {}]_vars

\* C23 witness: a call of a dashboard has failed and nothing is in flight.
C23_Witness ==
  /\ last.kind = "settled" /\ ~last.res.ok
  /\ last.ui.issued = {}
  /\ Pending = {}

\* The notification the status taxonomy prescribes for a failed call.
ServerMessageOr(error, default) ==
  IF error.message.t = "string" /\ error.message.s # <<>> THEN error.message.s ELSE default

ExpectedNotification(error, default) ==
  IF ~error.axios THEN default
  ELSE IF error.status = Num(401) THEN <<"Unauthorized: Please log in again">>
  ELSE IF error.status = Num(400) THEN <<"Bad Request: ">> \o ServerMessageOr(error, default)
  ELSE ServerMessageOr(error, default)

\* C24: the error notification of every failed call of a dashboard follows
\* the status taxonomy.
C24_ErrorTaxonomy ==
  (last.kind = "settled" /\ ~last.res.ok)
    => last.ui.toast = Str(ExpectedNotification(last.res.error,
                                                defaultMessageOf(dash.kind, last.op)))

\* C27: in a dashboard, 1 <= currentPage <= totalPages.
C27_CurrentPageInRange ==
  dash # NoDash
    => /\ dash.totalPages.t = "number"
       /\ 1 <= dash.currentPage
       /\ dash.currentPage <= dash.totalPages.n

\* C28: in the administrators' dashboard, when the users fetch and the
\* transactions fetch of one effect have both succeeded, the page count is
\* ceiling(transactions total / 10), whichever of the two came second.
C28_PagerShowsTransactionPages ==
  (dash # NoDash /\ dash.kind = "admin" /\ last.kind = "settled" /\ last.res.ok
     /\ last.ui.firstTotal # NoTotal)
    => dash.totalPages =
         MathCeilDiv(IF last.op = "fetchTransactions" THEN last.res.data.total
                     ELSE last.ui.firstTotal, limit)

\* C29: when the users re-fetch of a successful submit has succeeded, nothing
\* else is in flight and the pager still shows the page the form was
\* submitted on, the users on display are the server's rows of that page.
C29_RefetchShowsCurrentPage ==
  (dash # NoDash /\ last.kind = "settled" /\ last.res.ok
     /\ last.op \in {"fetchEmployees", "fetchUsers"}
     /\ ~last.res.data.isArray
     /\ last.ui.req.origin = "onSubmit"
     /\ last.ui.req.at = dash.currentPage
     /\ dash.pending = {})
    => dash.employees = ServerPage(dash.currentPage)

\* C30: the login form on screen has at most one login of its own in flight
\* and is submitting exactly while it has one; a submit made while it is
\* submitting changes nothing in flight; and when a login of its own has
\* been answered and the form is still on screen, it is not submitting.
C30_OneLoginPerForm ==
  [][/\ form'.own <= 1
     /\ form'.mounted => (form'.isSubmitting <=> form'.own = 1)
     /\ (form.mounted /\ form.isSubmitting /\ last'.kind \in {"submit", "dispatch"})
          => inflight' = inflight /\ form' = form
     /\ (last'.kind \in {"fulfilled", "rejected"} /\ form.own > 0 /\ form'.own < form.own
           /\ form'.mounted)
          => ~form'.isSubmitting /\ ~onSubmitReturnsEarly(form')]_vars

\* C30 witness: a submit made while the form was submitting was ignored.
C30_Witness ==
  /\ last.kind = "submit"
  /\ form.mounted /\ form.isSubmitting /\ form.own = 1
  /\ inflight["login"] = 1

====
